---- MODULE Spec2Model ----
(***************************************************************************)
(* Model of pelican/__init__.py: the Pelican orchestrator (construction,   *)
(* settings deprecation handling, the two-phase run()) and main() with its *)
(* autoreload loop and top-level error translation.                        *)
(*                                                                         *)
(* Strings are sequences of one-character strings, so that prefix tests,   *)
(* regular-expression rewrites and path joins are computed character by    *)
(* character as the Python code computes them.                             *)
(***************************************************************************)
EXTENDS Integers, Sequences, FiniteSets, TLC

(***************************************************************************)
(* Bounds of the model.                                                    *)
(***************************************************************************)
\* Largest number of run() calls one process is followed through.
MaxRuns == 2
\* Error-specific exit codes carried by raised errors range over 0..MaxExitCode.
MaxExitCode == 2
\* Longest legacy permalink structure tried, in tokens.
MaxTokens == 3

(***************************************************************************)
(* Character strings.                                                      *)
(***************************************************************************)
Empty == << >>

StartsWith(s, p) ==
    /\ Len(p) <= Len(s)
    /\ SubSeq(s, 1, Len(p)) = p

EndsWith(s, p) ==
    /\ Len(p) <= Len(s)
    /\ SubSeq(s, Len(s) - Len(p) + 1, Len(s)) = p

Tail1(s, n) == SubSeq(s, n, Len(s))

\* Python truthiness of a string-or-None value: None and '' are both falsy.
Truthy(s) == s # Empty

\* Python's `a or b` on such values.
Or(a, b) == IF Truthy(a) THEN a ELSE b

(***************************************************************************)
(* The file system the process runs in: a working directory, one symbolic  *)
(* link, the theme directories that exist.                                 *)
(***************************************************************************)
Slash == <<"/">>
P_ab == <<"/", "a", "/", "b">>
P_abSlash == P_ab \o Slash
P_abc == <<"/", "a", "/", "b", "c">>
P_output == <<"o", "u", "t", "p", "u", "t">>
P_ab_output == P_ab \o Slash \o P_output
P_link == <<"/", "l">>
P_link_output == P_link \o Slash \o P_output
P_site == <<"/", "s">>

\* Working directory of the process.
Cwd == P_ab
\* /l is a symbolic link to /a/b.
LinkFrom == P_link
LinkTo == P_ab

RECURSIVE StripTrailingSlashes(_)
StripTrailingSlashes(p) ==
    IF Len(p) > 1 /\ p[Len(p)] = "/"
    THEN StripTrailingSlashes(SubSeq(p, 1, Len(p) - 1))
    ELSE p

\* os.path.abspath: relative paths are joined to the working directory, the
\* result is normalised (no trailing separator).
Abspath(p) ==
    IF p = Empty THEN Cwd
    ELSE IF p[1] = "/" THEN StripTrailingSlashes(p)
    ELSE StripTrailingSlashes(Cwd \o Slash \o p)

\* os.path.realpath: the absolute path with the symbolic link resolved.
Realpath(p) ==
    LET q == Abspath(p) IN
    IF q = LinkFrom \/ StartsWith(q, LinkFrom \o Slash)
    THEN LinkTo \o Tail1(q, Len(LinkFrom) + 1)
    ELSE q

\* Theme locations are pairs: <<"given", t>> is the theme value t as given,
\* <<"bundled", t>> is <pelican package>/themes/t. T_empty is the empty
\* string: themes/ itself is a directory that exists.
T_empty == "empty"
T_custom == "custom"
T_bundled == "notmyidea"
T_missing == "nosuchtheme"
GivenTheme(t) == <<"given", t>>
BundledTheme(t) == <<"bundled", t>>
ExistingPaths ==
    {GivenTheme(T_custom), BundledTheme(T_bundled), BundledTheme(T_empty)}
PathExists(p) == p \in ExistingPaths

(***************************************************************************)
(* Settings: a mapping from keys to values.  Deprecation handling rewrites *)
(* it in place.                                                            *)
(***************************************************************************)
Lower == {"a", "b", "c", "d", "e", "f", "g", "h", "i", "j", "k", "l", "m",
          "n", "o", "p", "q", "r", "s", "t", "u", "v", "w", "x", "y", "z"}
Upper == {"A", "B", "C", "D", "E", "F", "G", "H", "I", "J", "K", "L", "M",
          "N", "O", "P", "Q", "R", "S", "T", "U", "V", "W", "X", "Y", "Z"}
Digits == {"0", "1", "2", "3", "4", "5", "6", "7", "8", "9"}
\* \w of Python's re module.
IsWord(c) == c \in Lower \cup Upper \cup Digits \cup {"_"}
\* Mutant of line 87: the character class is [a-z].
IsAtoz_LowerOnly(c) == c \in Lower

\* The character class [A-z]: ASCII 65..122, that is the letters and the six
\* characters between Z and a (the backslash and the grave accent are written
\* by name).
IsAtoz(c) ==
    c \in Lower \cup Upper \cup {"[", "BACKSLASH", "]", "^", "_", "GRAVE"}

RECURSIVE WordRun(_)
WordRun(s) == IF s # Empty /\ IsWord(s[1]) THEN 1 + WordRun(Tail(s)) ELSE 0

\* re.sub('%\((\w+)\)s', '{\g<1>}', s)
RECURSIVE SubVariables(_)
SubVariables(s) ==
    IF s = Empty THEN Empty
    ELSE LET n == IF Len(s) >= 3 THEN WordRun(Tail1(s, 3)) ELSE 0 IN
         IF /\ Len(s) >= n + 4
            /\ n >= 1
            /\ s[1] = "%"
            /\ s[2] = "("
            /\ s[n + 3] = ")"
            /\ s[n + 4] = "s"
         THEN <<"{">> \o SubSeq(s, 3, n + 2) \o <<"}">>
                 \o SubVariables(Tail1(s, n + 5))
         ELSE <<s[1]>> \o SubVariables(Tail(s))

\* re.sub('(%[A-z])', '{date:\g<1>}', s)
RECURSIVE SubStrftime(_)
SubStrftime(s) ==
    IF s = Empty THEN Empty
    ELSE IF Len(s) >= 2 /\ s[1] = "%" /\ IsAtoz(s[2])
         THEN <<"{", "d", "a", "t", "e", ":", "%", s[2], "}">>
                 \o SubStrftime(Tail1(s, 3))
         ELSE <<s[1]>> \o SubStrftime(Tail(s))

\* re.sub('^/', '', s)
StripSlashPrefix(s) == IF s # Empty /\ s[1] = "/" THEN Tail(s) ELSE s

\* os.path.join(a, b) of posixpath.
PathJoin(a, b) ==
    IF b # Empty /\ b[1] = "/" THEN b
    ELSE IF a = Empty \/ EndsWith(a, Slash) THEN a \o b
    ELSE a \o Slash \o b

\* Mutant of lines 92-95: the structure is prefixed onto the article urls and
\* the save-as settings only.
PermalinkKeys_Six ==
    {"ARTICLE_URL", "ARTICLE_LANG_URL",
     "ARTICLE_SAVE_AS", "ARTICLE_LANG_SAVE_AS", "PAGE_SAVE_AS",
     "PAGE_LANG_SAVE_AS"}

CleanUrlKeys == {"ARTICLE_URL", "ARTICLE_LANG_URL", "PAGE_URL", "PAGE_LANG_URL"}
PermalinkKeys ==
    {"ARTICLE_URL", "ARTICLE_LANG_URL", "PAGE_URL", "PAGE_LANG_URL",
     "ARTICLE_SAVE_AS", "ARTICLE_LANG_SAVE_AS", "PAGE_SAVE_AS",
     "PAGE_LANG_SAVE_AS"}

U_slug == <<"{", "s", "l", "u", "g", "}">>
U_lang == <<"{", "l", "a", "n", "g", "}">>
U_pages == <<"p", "a", "g", "e", "s", "/">>
\* Mutant of lines 67-70: the page urls lose their pages/ directory.
CleanUrl_NoPages(k) ==
    IF k \in {"ARTICLE_URL", "PAGE_URL"}
    THEN U_slug \o Slash
    ELSE U_slug \o <<"-">> \o U_lang \o Slash

CleanUrl(k) ==
    CASE k = "ARTICLE_URL" -> U_slug \o Slash
      [] k = "ARTICLE_LANG_URL" -> U_slug \o <<"-">> \o U_lang \o Slash
      [] k = "PAGE_URL" -> U_pages \o U_slug \o Slash
      [] k = "PAGE_LANG_URL" -> U_pages \o U_slug \o <<"-">> \o U_lang \o Slash

PermalinkStructure(s) == StripSlashPrefix(SubStrftime(SubVariables(s)))

\* Lines 81-90: the local `structure` (empty when the branch is not taken).
DerivedStructure(s) ==
    IF Truthy(s["ARTICLE_PERMALINK_STRUCTURE"])
    THEN PermalinkStructure(s["ARTICLE_PERMALINK_STRUCTURE"])
    ELSE Empty

\* Pelican._handle_deprecation, as a function of the settings mapping.
HandleDeprecation(s) ==
    LET s1 == IF s["CLEAN_URLS"]
              THEN [k \in DOMAIN s |->
                       IF k \in CleanUrlKeys THEN CleanUrl(k) ELSE s[k]]
              ELSE s
        structure == PermalinkStructure(s1["ARTICLE_PERMALINK_STRUCTURE"])
    IN  IF Truthy(s1["ARTICLE_PERMALINK_STRUCTURE"])
        THEN [k \in DOMAIN s1 |->
                 IF k \in PermalinkKeys THEN PathJoin(structure, s1[k])
                 ELSE s1[k]]
        ELSE s1

\* Values of the URL and save-as settings before migration.
V_article == <<"a">>
V_article_lang == <<"a", "-", "l">>
V_page == <<"p">>
V_page_lang == <<"p", "-", "l">>
V_sitename == <<"s", "i", "t", "e">>
\* A legacy permalink structure is written with tokens: %(name)s, a strftime
\* directive %X, or a character of literal text.
NameToken(n) == <<"name", n>>
DateToken(c) == <<"date", <<c>>>>
LitToken(c) == <<"lit", <<c>>>>
RenderToken(t) ==
    CASE t[1] = "name" -> <<"%", "(">> \o t[2] \o <<")", "s">>
      [] t[1] = "date" -> <<"%">> \o t[2]
      [] t[1] = "lit" -> t[2]
RECURSIVE Render(_)
Render(toks) ==
    IF toks = << >> THEN Empty
    ELSE RenderToken(Head(toks)) \o Render(Tail(toks))

\* A legacy permalink structure: /%Y/%(slug)s
V_permalinkTokens ==
    <<LitToken("/"), DateToken("Y"), LitToken("/"),
      NameToken(<<"s", "l", "u", "g">>)>>
V_permalink == Render(V_permalinkTokens)
\* The default OUTPUT_PATH, relative to the working directory: output/
V_output == P_output \o Slash

MkSettings(path, delete, pdf, clean, permalink) ==
    [PATH |-> path,
     THEME |-> T_bundled,
     OUTPUT_PATH |-> V_output,
     DELETE_OUTPUT_DIRECTORY |-> delete,
     PDF_GENERATOR |-> pdf,
     CLEAN_URLS |-> clean,
     ARTICLE_PERMALINK_STRUCTURE |-> permalink,
     ARTICLE_URL |-> V_article,
     ARTICLE_LANG_URL |-> V_article_lang,
     PAGE_URL |-> V_page,
     PAGE_LANG_URL |-> V_page_lang,
     ARTICLE_SAVE_AS |-> V_article,
     ARTICLE_LANG_SAVE_AS |-> V_article_lang,
     PAGE_SAVE_AS |-> V_page,
     PAGE_LANG_SAVE_AS |-> V_page_lang,
     SITENAME |-> V_sitename]

(***************************************************************************)
(* Generators, errors, the watched trees.                                  *)
(***************************************************************************)
ArticlesGenerator == "ArticlesGenerator"
PagesGenerator == "PagesGenerator"
StaticGenerator == "StaticGenerator"
PdfGenerator == "PdfGenerator"
GeneratorClasses ==
    {ArticlesGenerator, PagesGenerator, StaticGenerator, PdfGenerator}

\* The two optional capabilities a generator may expose.
Capabilities == {"generate_context", "generate_output"}

\* Which capabilities the generator classes expose (pelican.generators):
\* the stock classes, and two other sets of classes in which every
\* combination of capabilities occurs.
RealProfile ==
    [g \in GeneratorClasses |->
        IF g = StaticGenerator THEN {"generate_output"} ELSE Capabilities]
CapProfiles ==
    { RealProfile,
      [g \in GeneratorClasses |->
          CASE g = ArticlesGenerator -> {}
            [] g = PagesGenerator -> {"generate_context"}
            [] g = StaticGenerator -> {"generate_output"}
            [] g = PdfGenerator -> Capabilities],
      [g \in GeneratorClasses |->
          CASE g = ArticlesGenerator -> {"generate_output"}
            [] g = PagesGenerator -> Capabilities
            [] g = StaticGenerator -> {}
            [] g = PdfGenerator -> {"generate_context"}] }

\* An exception object: whether it carries an `exitcode` attribute, and the
\* (ghost) place it was raised at.
NoErr == [raised |-> FALSE, hasExit |-> FALSE, exitcode |-> 0, phase |-> "none"]
Raised(hasExit, code, phase) ==
    [raised |-> TRUE, hasExit |-> hasExit, exitcode |-> code, phase |-> phase]
\* The errors a generator may raise.
GeneratorErrors(phase) ==
    {Raised(FALSE, 0, phase)} \cup {Raised(TRUE, c, phase) : c \in 0..MaxExitCode}

Trees == {"content", "theme"}

(***************************************************************************)
(* State.                                                                  *)
(***************************************************************************)
VARIABLES
    args,             \* parsed command line
    loaded,           \* (ghost) the settings as read_settings returned them
    tokens,           \* (ghost) how ARTICLE_PERMALINK_STRUCTURE is written
    settings,         \* the Settings mapping
    deprecation,      \* (ghost) _handle_deprecation: done, local `structure`
    classes,          \* capabilities of the generator classes
    pelican,          \* the Pelican instance's fields
    pc,               \* where main() is
    generators,       \* run(): the generator instances, by class, in order
    idx,              \* run(): position of the current loop in generators
    context,          \* run(): the context handed to the generators
    writer,           \* run(): whether the writer has been constructed
    trace,            \* (ghost) run(): what happened so far in this run
    err,              \* the exception propagating, if any
    exitCode,         \* the argument of sys.exit
    outputDirExists,  \* file system: the output directory is there
    nruns,            \* (ghost) number of run() calls so far
    dirty,            \* per tree: changed since files_changed last recorded it
    recorded,         \* (ghost) per tree: files_changed has recorded it once
    changedSincePoll, \* (ghost) a watched file changed since the last poll
    quiet,            \* (ghost) the last poll was preceded by no file change
    interruptedAt     \* (ghost) where the interrupt signal was observed

vars == <<args, loaded, tokens, settings, deprecation, classes, pelican, pc,
          generators, idx, context,
          writer, trace, err, exitCode, outputDirExists, nruns, dirty,
          recorded, changedSincePoll, quiet, interruptedAt>>

\* What main() has before the try statement, and what the constructor makes
\* of the settings.
startVars == <<args, loaded, tokens, settings, deprecation, classes>>
runVars == <<generators, idx, context, writer, trace>>
watchVars == <<dirty, recorded, changedSincePoll, quiet>>

NoPelican ==
    [constructed |-> FALSE, path |-> Empty, theme |-> GivenTheme(T_empty),
     output_path |-> Empty, delete_outputdir |-> FALSE]

(***************************************************************************)
(* Inputs: the command lines and settings files the process is started     *)
(* with.                                                                   *)
(***************************************************************************)
\* <<args.path, settings['PATH']>>
ContentInputs ==
    ({Empty, P_ab} \X {Empty, P_site})
        \cup ({P_abSlash, P_ab_output, P_abc, P_link} \X {Empty})
OutputArgs == {Empty, P_ab, P_ab_output, P_link_output}
ThemeArgs == {T_empty, T_custom, T_missing}

MkArgs(path, theme, output, delete, debug, autoreload) ==
    [path |-> path, theme |-> theme, output |-> output,
     delete_outputdir |-> delete, debug |-> debug, autoreload |-> autoreload]

\* Every combination of paths and delete flags, with the stock generators and
\* theme.
PathInputs ==
    {<<MkArgs(c[1], T_empty, o, d, FALSE, a),
       MkSettings(c[2], sd, FALSE, FALSE, Empty),
       RealProfile,
       << >> >> :
        c \in ContentInputs, o \in OutputArgs, d \in BOOLEAN, sd \in BOOLEAN,
        a \in BOOLEAN}

\* Every combination of theme, verbosity, pipeline settings and generator
\* capabilities, with the content in /a/b.
PipelineInputs ==
    {<<MkArgs(P_ab, t, o, d, dbg, a),
       MkSettings(Empty, FALSE, pdf, legacy,
                  IF legacy THEN V_permalink ELSE Empty),
       c,
       IF legacy THEN V_permalinkTokens ELSE << >> >> :
        t \in ThemeArgs, o \in {Empty, P_ab}, d \in BOOLEAN, dbg \in BOOLEAN,
        a \in BOOLEAN, pdf \in BOOLEAN, legacy \in BOOLEAN,
        c \in CapProfiles}

Inputs == PathInputs \cup PipelineInputs

\* What is the same at every start of main().
InitRest ==
    /\ loaded = settings
    /\ deprecation = [done |-> FALSE, structure |-> Empty]
    /\ pelican = NoPelican
    /\ pc = "construct"
    /\ generators = << >>
    /\ idx = 0
    /\ context = [live |-> FALSE, settings |-> settings, added |-> {}]
    /\ writer = FALSE
    /\ trace = << >>
    /\ err = NoErr
    /\ exitCode = 0
    /\ outputDirExists = TRUE
    /\ nruns = 0
    /\ recorded = [t \in Trees |-> FALSE]
    /\ changedSincePoll = FALSE
    /\ quiet = FALSE
    /\ interruptedAt = "none"

Init ==
    /\ \E i \in Inputs :
        /\ args = i[1]
        /\ settings = i[2]
        /\ classes = i[3]
        /\ tokens = i[4]
    /\ IF args.autoreload
       THEN dirty \in [Trees -> BOOLEAN]
       ELSE dirty = [t \in Trees |-> FALSE]
    /\ InitRest

(***************************************************************************)
(* Inputs of the settings migration: legacy permalink structures of up to  *)
(* MaxTokens tokens, with and without CLEAN_URLS, with a relative and with *)
(* an absolute PAGE_SAVE_AS, with a theme that is found and one that is    *)
(* not.                                                                    *)
(***************************************************************************)
TokenSet ==
    {NameToken(<<"s", "l", "u", "g">>), NameToken(<<"a", "_", "1">>),
     DateToken("Y"), DateToken("s"),
     LitToken("/"), LitToken("-"), LitToken("_")}
TokenSeqs == UNION {[1..n -> TokenSet] : n \in 0..MaxTokens}
V_absolute == <<"/", "p">>

InitMigrate ==
    /\ \E toks \in TokenSeqs, clean \in BOOLEAN, absolute \in BOOLEAN,
          t \in {T_empty, T_missing} :
        /\ args = MkArgs(P_ab, t, Empty, FALSE, FALSE, FALSE)
        /\ settings =
              [MkSettings(Empty, FALSE, FALSE, clean, Render(toks))
                  EXCEPT !["PAGE_SAVE_AS"] = IF absolute THEN V_absolute ELSE @]
        /\ classes = RealProfile
        /\ tokens = toks
    /\ dirty = [t \in Trees |-> FALSE]
    /\ InitRest

(***************************************************************************)
(* Pelican.__init__, called from main() inside the top-level try.          *)
(***************************************************************************)
ThemeOr(a, b) == IF a # T_empty THEN a ELSE b

\* self.path after lines 32-38.
ContentPath(a, s) ==
    LET path == Or(a.path, s["PATH"]) IN
    IF EndsWith(path, Slash) THEN SubSeq(path, 1, Len(path) - 1) ELSE path

\* self.output_path, line 46-47.
OutputPath(a, s) == Realpath(Or(a.output, s["OUTPUT_PATH"]))

\* Mutant of lines 49-50: the command-line flag alone decides.
DeleteOutputdir_ArgOnly(a, s) == a.delete_outputdir

\* self.delete_outputdir, line 49-50.
DeleteOutputdir(a, s) == a.delete_outputdir \/ s["DELETE_OUTPUT_DIRECTORY"]

\* Mutant of lines 53-59: the bundled theme is taken without checking that
\* it exists.
ThemeFound_NoCheck(a, s) == TRUE

\* self.theme after lines 45 and 53-59; ThemeFound says whether line 59 is
\* not reached.
ThemeFound(a, s) ==
    LET t == ThemeOr(a.theme, s["THEME"]) IN
    PathExists(GivenTheme(t)) \/ PathExists(BundledTheme(t))
ResolvedTheme(a, s) ==
    LET t == ThemeOr(a.theme, s["THEME"]) IN
    IF PathExists(GivenTheme(t)) THEN GivenTheme(t) ELSE BundledTheme(t)

\* The content path is missing: line 34 raises before anything else happens.
ConstructNoPath ==
    /\ pc = "construct"
    /\ ~Truthy(Or(args.path, settings["PATH"]))
    /\ err' = Raised(FALSE, 0, "construct")
    /\ pc' = "except"
    /\ UNCHANGED <<startVars, pelican, runVars, exitCode,
                   outputDirExists, nruns, watchVars, interruptedAt>>

\* The theme is found nowhere: line 59 raises, after the settings have been
\* migrated.
ConstructNoTheme ==
    /\ pc = "construct"
    /\ Truthy(Or(args.path, settings["PATH"]))
    /\ ~ThemeFound(args, settings)
    /\ settings' = HandleDeprecation(settings)
    /\ deprecation' =
          [done |-> TRUE, structure |-> DerivedStructure(settings)]
    /\ err' = Raised(FALSE, 0, "construct")
    /\ pc' = "except"
    /\ UNCHANGED <<args, loaded, tokens, classes, pelican, runVars, exitCode,
                   outputDirExists, nruns, watchVars, interruptedAt>>

\* pelican = cls(settings, args.path, ...) succeeds; main() goes on to the
\* autoreload loop or to the single run().
Construct ==
    /\ pc = "construct"
    /\ Truthy(Or(args.path, settings["PATH"]))
    /\ ThemeFound(args, settings)
    /\ settings' = HandleDeprecation(settings)
    /\ deprecation' =
          [done |-> TRUE, structure |-> DerivedStructure(settings)]
    /\ pelican' = [constructed |-> TRUE,
                   path |-> ContentPath(args, settings),
                   theme |-> ResolvedTheme(args, settings),
                   output_path |-> OutputPath(args, settings),
                   delete_outputdir |-> DeleteOutputdir(args, settings)]
    /\ pc' = IF args.autoreload THEN "poll" ELSE "run"
    /\ UNCHANGED <<args, loaded, tokens, classes, runVars, err, exitCode,
                   outputDirExists,
                   nruns, watchVars, interruptedAt>>

(***************************************************************************)
(* Pelican.run.                                                            *)
(***************************************************************************)
\* Mutant of get_generator_classes: the PDF generator is put first.
GetGeneratorClasses_PdfFirst(s) ==
    LET base == <<ArticlesGenerator, PagesGenerator, StaticGenerator>> IN
    IF s["PDF_GENERATOR"] THEN <<PdfGenerator>> \o base ELSE base

\* Pelican.get_generator_classes.
GetGeneratorClasses(s) ==
    LET base == <<ArticlesGenerator, PagesGenerator, StaticGenerator>> IN
    IF s["PDF_GENERATOR"] THEN Append(base, PdfGenerator) ELSE base

\* Mutant of lines 117 and 129: a generator that has either method is called.
HasAttr_Any(g, capability) == classes[g] # {}

\* hasattr(p, capability)
HasAttr(g, capability) == capability \in classes[g]

Event(kind, g) == <<kind, g>>

\* Mutant of line 103: the context is made once and used again by later runs.
RunStart_KeepContext ==
    /\ pc = "run"
    /\ context' = IF context.live THEN context
                  ELSE [live |-> TRUE, settings |-> settings, added |-> {}]
    /\ generators' = GetGeneratorClasses(settings)
    /\ idx' = 1
    /\ writer' = FALSE
    /\ trace' = << >>
    /\ nruns' = nruns + 1
    /\ pc' = "ctx"
    /\ UNCHANGED <<startVars, pelican, err, exitCode,
                   outputDirExists, watchVars, interruptedAt>>

\* Lines 103-114: the context is a copy of the settings, the generators are
\* constructed.
RunStart ==
    /\ pc = "run"
    /\ context' = [live |-> TRUE, settings |-> settings, added |-> {}]
    /\ generators' = GetGeneratorClasses(settings)
    /\ idx' = 1
    /\ writer' = FALSE
    /\ trace' = << >>
    /\ nruns' = nruns + 1
    /\ pc' = "ctx"
    /\ UNCHANGED <<startVars, pelican, err, exitCode,
                   outputDirExists, watchVars, interruptedAt>>

\* Lines 116-118, one iteration: the generator has no generate_context.
CtxSkip ==
    /\ pc = "ctx"
    /\ idx <= Len(generators)
    /\ ~HasAttr(generators[idx], "generate_context")
    /\ idx' = idx + 1
    /\ UNCHANGED <<startVars, pelican, pc, generators, context,
                   writer, trace, err, exitCode, outputDirExists, nruns,
                   watchVars, interruptedAt>>

\* Lines 116-118, one iteration: p.generate_context() is called.
CtxCall ==
    /\ pc = "ctx"
    /\ idx <= Len(generators)
    /\ HasAttr(generators[idx], "generate_context")
    /\ trace' = Append(trace, Event("ctx_begin", generators[idx]))
    /\ pc' = "in_ctx"
    /\ UNCHANGED <<startVars, pelican, generators, idx, context,
                   writer, err, exitCode, outputDirExists, nruns, watchVars,
                   interruptedAt>>

\* What p.generate_context() does to the context it was constructed with: it
\* accumulates entries into it.
GenerateContext(ctx, g) == [ctx EXCEPT !.added = @ \cup {g}]

\* Mutant of the first loop: one loop that calls generate_output right
\* after the generator's generate_context.
CtxReturn_Interleaved ==
    /\ pc = "in_ctx"
    /\ trace' = Append(Append(trace, <<"ctx_end", generators[idx]>>),
                       <<"out_begin", generators[idx]>>)
    /\ context' = GenerateContext(context, generators[idx])
    /\ pc' = "in_out"
    /\ UNCHANGED <<startVars, pelican, generators, idx, writer,
                   err, exitCode, outputDirExists, nruns, dirty, recorded,
                   changedSincePoll, quiet, interruptedAt>>

\* p.generate_context() returns; the generator may have added to the context.
CtxReturn ==
    /\ pc = "in_ctx"
    /\ trace' = Append(trace, Event("ctx_end", generators[idx]))
    /\ context' = GenerateContext(context, generators[idx])
    /\ idx' = idx + 1
    /\ pc' = "ctx"
    /\ UNCHANGED <<startVars, pelican, generators, writer, err,
                   exitCode, outputDirExists, nruns, watchVars, interruptedAt>>

\* Mutant of the first loop: the generator's exception is caught and the loop
\* goes on with the next generator.
CtxRaise_Swallowed ==
    /\ pc = "in_ctx"
    /\ \E hasExit \in BOOLEAN :
          err' = [raised |-> TRUE, hasExit |-> hasExit, exitcode |-> 0,
                  phase |-> "context"]
    /\ idx' = idx + 1
    /\ pc' = "ctx"
    /\ UNCHANGED <<startVars, pelican, generators, context,
                   writer, trace, exitCode, outputDirExists, nruns, dirty,
                   recorded, changedSincePoll, quiet, interruptedAt>>

\* p.generate_context() raises: nothing in run() or in the autoreload loop
\* catches an Exception, it reaches line 227.
CtxRaise ==
    /\ pc = "in_ctx"
    /\ \E e \in GeneratorErrors("context") : err' = e
    /\ pc' = "except"
    /\ UNCHANGED <<startVars, pelican, runVars, exitCode,
                   outputDirExists, nruns, watchVars, interruptedAt>>

\* Mutant of line 123: the content path is compared as given, not resolved.
ShouldClean_RawPath(p) ==
    /\ p.delete_outputdir
    /\ ~StartsWith(p.path, p.output_path)

\* Mutant of line 123: the directory is also spared when the output path
\* starts with the content path.
ShouldClean_EitherPrefix(p) ==
    /\ p.delete_outputdir
    /\ ~StartsWith(Realpath(p.path), p.output_path)
    /\ ~StartsWith(p.output_path, Realpath(p.path))

\* Line 122-123: the condition under which the output directory is erased.
ShouldClean(p) ==
    /\ p.delete_outputdir
    /\ ~StartsWith(Realpath(p.path), p.output_path)

\* Mutant of lines 120-126: the writer is made before the cleanup.
CleanupDecision_AfterWriter ==
    /\ pc = "ctx"
    /\ idx > Len(generators)
    /\ writer' = TRUE
    /\ IF ShouldClean(pelican)
       THEN /\ outputDirExists' = FALSE
            /\ trace' = Append(Append(trace, <<"writer", "-">>),
                               <<"clean", "-">>)
       ELSE /\ trace' = Append(trace, <<"writer", "-">>)
            /\ UNCHANGED outputDirExists
    /\ idx' = 1
    /\ pc' = "out"
    /\ UNCHANGED <<startVars, pelican, generators, context,
                   err, exitCode, nruns, watchVars, interruptedAt>>

\* Mutant of lines 122-124: a deletion that is asked for and cannot be done
\* is an error.
CleanupDecision_AbortOnOverlap ==
    /\ pc = "ctx"
    /\ idx > Len(generators)
    /\ IF pelican.delete_outputdir /\ ~ShouldClean(pelican)
       THEN /\ err' = [raised |-> TRUE, hasExit |-> FALSE, exitcode |-> 0,
                       phase |-> "cleanup"]
            /\ pc' = "except"
            /\ UNCHANGED <<outputDirExists, trace>>
       ELSE /\ pc' = "get_writer"
            /\ err' = err
            /\ IF ShouldClean(pelican)
               THEN /\ outputDirExists' = FALSE
                    /\ trace' = Append(trace, <<"clean", "-">>)
               ELSE UNCHANGED <<outputDirExists, trace>>
    /\ UNCHANGED <<startVars, pelican, generators, idx, context,
                   writer, exitCode, nruns, watchVars, interruptedAt>>

\* Lines 120-124, reached when the first loop is over.
CleanupDecision ==
    /\ pc = "ctx"
    /\ idx > Len(generators)
    /\ IF ShouldClean(pelican)
       THEN /\ outputDirExists' = FALSE
            /\ trace' = Append(trace, Event("clean", "-"))
       ELSE UNCHANGED <<outputDirExists, trace>>
    /\ pc' = "get_writer"
    /\ UNCHANGED <<startVars, pelican, generators, idx, context,
                   writer, err, exitCode, nruns, watchVars, interruptedAt>>

\* Line 126.
GetWriter ==
    /\ pc = "get_writer"
    /\ writer' = TRUE
    /\ trace' = Append(trace, Event("writer", "-"))
    /\ idx' = 1
    /\ pc' = "out"
    /\ UNCHANGED <<startVars, pelican, generators, context, err,
                   exitCode, outputDirExists, nruns, watchVars, interruptedAt>>

\* Lines 128-130, one iteration: the generator has no generate_output.
OutSkip ==
    /\ pc = "out"
    /\ idx <= Len(generators)
    /\ ~HasAttr(generators[idx], "generate_output")
    /\ idx' = idx + 1
    /\ UNCHANGED <<startVars, pelican, pc, generators, context,
                   writer, trace, err, exitCode, outputDirExists, nruns,
                   watchVars, interruptedAt>>

\* Lines 128-130, one iteration: p.generate_output(writer) is called.
OutCall ==
    /\ pc = "out"
    /\ idx <= Len(generators)
    /\ HasAttr(generators[idx], "generate_output")
    /\ trace' = Append(trace, Event("out_begin", generators[idx]))
    /\ pc' = "in_out"
    /\ UNCHANGED <<startVars, pelican, generators, idx, context,
                   writer, err, exitCode, outputDirExists, nruns, watchVars,
                   interruptedAt>>

\* p.generate_output(writer) returns; if it wrote a file, the output
\* directory exists (again).
OutReturn ==
    /\ pc = "in_out"
    /\ trace' = Append(trace, Event("out_end", generators[idx]))
    /\ \E wrote \in BOOLEAN : outputDirExists' = (outputDirExists \/ wrote)
    /\ idx' = idx + 1
    /\ pc' = "out"
    /\ UNCHANGED <<startVars, pelican, generators, context,
                   writer, err, exitCode, nruns, watchVars, interruptedAt>>

\* Mutant of the autoreload loop: an exception of the build is caught inside
\* the loop, which goes on to sleep and poll again.
OutRaise_CaughtPerCycle ==
    /\ pc = "in_out"
    /\ \E e \in GeneratorErrors("output") : err' = e
    /\ pc' = IF args.autoreload THEN "sleep" ELSE "except"
    /\ UNCHANGED <<startVars, pelican, generators, idx, context,
                   writer, trace, exitCode, outputDirExists, nruns, dirty,
                   recorded, changedSincePoll, quiet, interruptedAt>>

\* p.generate_output(writer) raises.
OutRaise ==
    /\ pc = "in_out"
    /\ \E e \in GeneratorErrors("output") : err' = e
    /\ pc' = "except"
    /\ UNCHANGED <<startVars, pelican, runVars, exitCode,
                   outputDirExists, nruns, watchVars, interruptedAt>>

\* run() returns: to time.sleep in the autoreload loop (line 222), or to the
\* end of main() (line 226).
RunReturn ==
    /\ pc = "out"
    /\ idx > Len(generators)
    /\ pc' = IF args.autoreload THEN "sleep" ELSE "done"
    /\ UNCHANGED <<startVars, pelican, runVars, err, exitCode,
                   outputDirExists, nruns, watchVars, interruptedAt>>

(***************************************************************************)
(* main(): the autoreload loop and the top-level error translation.        *)
(***************************************************************************)
\* files_changed(path, extensions): whether the tree changed since the call
\* that last recorded it, and the record it leaves behind.
FilesChanged(d, t) == d[t]
Record(d, t) == [d EXCEPT ![t] = FALSE]

\* Line 219-220: the trees files_changed is called on; `or` evaluates its
\* second operand only if the first is false.
PolledTrees(d) ==
    IF FilesChanged(d, "content") THEN {"content"} ELSE {"content", "theme"}

\* Line 219-220: the value of the condition.
PollChanged(d) ==
    \E t \in PolledTrees(d) : FilesChanged(d, t)

\* Lines 219-221: one poll of the loop; run() is called next if it reports a
\* change, time.sleep otherwise.
Poll ==
    /\ pc = "poll"
    /\ dirty' = [t \in Trees |->
                    IF t \in PolledTrees(dirty) THEN Record(dirty, t)[t]
                    ELSE dirty[t]]
    /\ recorded' = [t \in Trees |-> recorded[t] \/ t \in PolledTrees(dirty)]
    /\ quiet' = ((\A t \in Trees : recorded[t]) /\ ~changedSincePoll)
    /\ changedSincePoll' = FALSE
    /\ pc' = IF PollChanged(dirty) THEN "run" ELSE "sleep"
    /\ UNCHANGED <<startVars, pelican, runVars, err, exitCode,
                   outputDirExists, nruns, interruptedAt>>

\* Line 222: time.sleep(.5) returns and `while True` starts the next tick.
WakeUp ==
    /\ pc = "sleep"
    /\ nruns < MaxRuns
    /\ pc' = "poll"
    /\ UNCHANGED <<startVars, pelican, runVars, err, exitCode,
                   outputDirExists, nruns, watchVars, interruptedAt>>

\* The environment: a watched file of tree t is modified between two polls.
FileChange(t) ==
    /\ pc = "sleep"
    /\ dirty' = [dirty EXCEPT ![t] = TRUE]
    /\ changedSincePoll' = TRUE
    /\ UNCHANGED <<startVars, pelican, pc, runVars, err,
                   exitCode, outputDirExists, nruns, recorded, quiet,
                   interruptedAt>>

\* Where main() can be when a signal arrives: anywhere before it ends, the
\* except clause of line 227 apart.
Running ==
    {"construct", "poll", "run", "ctx", "in_ctx", "get_writer", "out",
     "in_out", "sleep"}

\* Mutant of lines 213-224: the try statement holds the call of run() only.
InLoopBody_RunOnly ==
    /\ args.autoreload
    /\ pc \in {"run", "ctx", "in_ctx", "get_writer", "out", "in_out"}

\* Where main() is inside `try: ... except KeyboardInterrupt: break`
\* (lines 213-224): the whole body of the autoreload loop.
InLoopBody ==
    /\ args.autoreload
    /\ pc \in Running \ {"construct"}

\* Lines 223-224: KeyboardInterrupt raised inside the loop body is caught,
\* the loop is left and main() returns.
InterruptLoop ==
    /\ pc \in Running
    /\ InLoopBody
    /\ interruptedAt' = pc
    /\ pc' = "done"
    /\ UNCHANGED <<startVars, pelican, runVars, err, exitCode,
                   outputDirExists, nruns, watchVars>>

\* KeyboardInterrupt raised anywhere else is not an Exception: line 227 does
\* not catch it and it leaves main().
InterruptUncaught ==
    /\ pc \in Running
    /\ ~InLoopBody
    /\ interruptedAt' = pc
    /\ pc' = "killed"
    /\ UNCHANGED <<startVars, pelican, runVars, err, exitCode,
                   outputDirExists, nruns, watchVars>>

\* Mutant of line 233: sys.exit(1) whatever the exception.
ExitCodeOf_AlwaysOne(e) == 1

\* getattr(e, 'exitcode', 1)
ExitCodeOf(e) == IF e.hasExit THEN e.exitcode ELSE 1

\* Lines 227-231: in debug verbosity the exception is raised again.
Reraise ==
    /\ pc = "except"
    /\ args.debug
    /\ pc' = "reraised"
    /\ UNCHANGED <<startVars, pelican, runVars, err, exitCode,
                   outputDirExists, nruns, watchVars, interruptedAt>>

\* Lines 227-233: otherwise sys.exit with the exception's exit code.
SysExit ==
    /\ pc = "except"
    /\ ~args.debug
    /\ exitCode' = ExitCodeOf(err)
    /\ pc' = "exited"
    /\ UNCHANGED <<startVars, pelican, runVars, err,
                   outputDirExists, nruns, watchVars, interruptedAt>>

Next ==
    \/ ConstructNoPath
    \/ ConstructNoTheme
    \/ Construct
    \/ RunStart
    \/ CtxSkip
    \/ CtxCall
    \/ CtxReturn
    \/ CtxRaise
    \/ CleanupDecision
    \/ GetWriter
    \/ OutSkip
    \/ OutCall
    \/ OutReturn
    \/ OutRaise
    \/ RunReturn
    \/ Poll
    \/ WakeUp
    \/ \E t \in Trees : FileChange(t)
    \/ InterruptLoop
    \/ InterruptUncaught
    \/ Reraise
    \/ SysExit

Spec == Init /\ [][Next]_vars

\* The constructor alone, on the inputs of the settings migration.
NextMigrate ==
    \/ ConstructNoTheme
    \/ Construct

SpecMigrate == InitMigrate /\ [][NextMigrate]_vars

(***************************************************************************)
(* Properties.                                                             *)
(***************************************************************************)
Kinds(k) == {i \in DOMAIN trace : trace[i][1] = k}
Happened(k) == Kinds(k) # {}
InRun == pc \in {"ctx", "in_ctx", "get_writer", "out", "in_out"}
\* run() has returned normally to main().
RunReturned == nruns > 0 /\ pc \in {"sleep", "poll", "done"} /\ ~InRun
                 /\ interruptedAt \in {"none", "sleep", "poll"}

\* C1: in every run(), when a generate_output invocation begins, every
\* generator of the pipeline that has generate_context has had it invoked and
\* returned, and no generate_context invocation begins or ends afterwards;
\* while a generate_context is executing no generate_output has begun.
C1_ContextBeforeOutput ==
    /\ \A j \in Kinds("out_begin") :
          /\ \A n \in DOMAIN generators :
                "generate_context" \in classes[generators[n]]
                    => \E i \in Kinds("ctx_end") :
                           i < j /\ trace[i][2] = generators[n]
          /\ \A i \in Kinds("ctx_begin") \cup Kinds("ctx_end") : i < j
          /\ Cardinality({i \in Kinds("ctx_begin") : i < j})
                = Cardinality({i \in Kinds("ctx_end") : i < j})
    /\ pc = "in_ctx" => ~Happened("out_begin")

C1_Witness ==
    /\ nruns = 2
    /\ pc = "in_out"
    /\ Cardinality(Kinds("ctx_end")) >= 3
    /\ Cardinality(Kinds("out_begin")) >= 2

\* C2: once a generator has raised in the context phase of a run(), no
\* generate_output has been or is ever invoked in that run, the output
\* directory has not been erased by it, no writer has been constructed, and
\* the exception has left run(): main() is in (or past) its except clause.
C2_ContextFailureStopsBuild ==
    (err.raised /\ err.phase = "context") =>
        /\ ~Happened("out_begin")
        /\ ~Happened("clean")
        /\ ~Happened("writer")
        /\ ~writer
        /\ nruns = 1 => outputDirExists
        /\ pc \in {"except", "exited", "reraised"}

C2_Witness ==
    /\ err.raised
    /\ err.phase = "context"
    /\ pc = "exited"
    /\ Happened("ctx_end")
    /\ pelican.delete_outputdir
    /\ ~StartsWith(Realpath(pelican.path), pelican.output_path)

\* Path c is p itself or lies under the directory p.
NestedUnder(c, p) == c = p \/ StartsWith(c, p \o Slash)

\* C3: when the delete flag is set and the canonical content path is equal to
\* or nested under the canonical output path, no run() erases the output
\* directory.
C3_NestedContentNeverErased ==
    ( /\ pelican.constructed
      /\ pelican.delete_outputdir
      /\ NestedUnder(Realpath(pelican.path), pelican.output_path) )
    => (~Happened("clean") /\ outputDirExists)

C3_Witness ==
    /\ pelican.constructed
    /\ pelican.delete_outputdir
    /\ pelican.path = P_link
    /\ pelican.output_path = P_ab
    /\ RunReturned
    /\ nruns = 2

\* contentPath=/a/b, outputPath=/a/b/output, delete flag true.
C4_Scenario ==
    /\ pelican.constructed
    /\ pelican.path = P_ab
    /\ pelican.output_path = P_ab_output
    /\ pelican.delete_outputdir

\* C4 as stated: in that scenario, after run() has returned the directory
\* /a/b/output exists and that run has not erased it.
C4_Original ==
    (C4_Scenario /\ RunReturned) => (outputDirExists /\ ~Happened("clean"))

\* C4, amended: in that scenario run() erases /a/b/output once its context
\* phase is over; the directory exists afterwards only if a generate_output
\* of that run has returned since.
C4_OutputUnderContentIsErased ==
    (C4_Scenario /\ (pc \in {"get_writer", "out", "in_out"} \/ RunReturned))
    => /\ Happened("clean")
       /\ outputDirExists => Happened("out_end")

C4_Witness ==
    /\ C4_Scenario
    /\ RunReturned
    /\ ~outputDirExists
    /\ Happened("out_end")

\* C5: the pipeline of a run is articles, pages, static, followed by the PDF
\* generator exactly when PDF_GENERATOR is set, whatever the other settings.
C5_PipelineMembers ==
    nruns > 0 =>
        generators =
            IF settings["PDF_GENERATOR"]
            THEN <<"ArticlesGenerator", "PagesGenerator", "StaticGenerator",
                   "PdfGenerator">>
            ELSE <<"ArticlesGenerator", "PagesGenerator", "StaticGenerator">>

C5_Witness ==
    /\ Len(generators) = 4
    /\ settings["CLEAN_URLS"]
    /\ pelican.delete_outputdir
    /\ pc = "done"

\* C6 as stated, for the polls it is about: once files_changed has recorded
\* both trees, a poll that no file modification has preceded since the poll
\* before it is not followed by a call of run().
C6_QuietPollNoRun ==
    (args.autoreload /\ pc = "run") => ~quiet

\* C7: once the interrupt signal has been observed in time.sleep or at the
\* start of a tick, main() has returned and stays so: nothing is polled or
\* run any more, no exception propagates and sys.exit is not called.
C7_InterruptStopsCleanly ==
    interruptedAt \in {"sleep", "poll"} =>
        /\ pc = "done"
        /\ ~err.raised
        /\ exitCode = 0

C7_Witness ==
    /\ interruptedAt = "sleep"
    /\ nruns = 1
    /\ dirty["content"]

\* C8: in the autoreload loop, once a generator has raised in either phase
\* main() is in or past its except clause: no state after the failure is one
\* of polling, sleeping or running.
C8_FailureEndsWatchLoop ==
    (args.autoreload /\ err.raised /\ err.phase \in {"context", "output"})
    => pc \in {"except", "exited", "reraised"}

C8_Witness ==
    /\ args.autoreload
    /\ err.phase = "output"
    /\ nruns = 2
    /\ pc = "exited"

\* C9: an error reaching the top level ends, outside debug verbosity, in
\* sys.exit with the error's exit code if it has one and 1 otherwise; in debug
\* verbosity it is raised again and sys.exit is not called; without an error
\* the except clause is never entered.
C9_ExitCodeTranslation ==
    /\ pc = "exited" =>
          /\ err.raised
          /\ ~args.debug
          /\ err.hasExit => exitCode = err.exitcode
          /\ ~err.hasExit => exitCode = 1
    /\ pc = "reraised" => (err.raised /\ args.debug /\ exitCode = 0)
    /\ err.raised =>
          pc \in {"except", IF args.debug THEN "reraised" ELSE "exited"}
    /\ ~err.raised => pc \notin {"except", "exited", "reraised"}

C9_Witness ==
    /\ pc = "exited"
    /\ err.hasExit
    /\ exitCode = 2

\* C10: when no content path is given, or when the theme exists neither as
\* given nor among the bundled themes, the constructor raises; after it has
\* raised there is no Pelican instance, run() is never called and no
\* generator is constructed or invoked.
C10_FailedConstruction ==
    LET noPath == args.path = Empty /\ settings["PATH"] = Empty
        theme == IF args.theme # T_empty THEN args.theme ELSE settings["THEME"]
        noTheme == /\ <<"given", theme>> \notin ExistingPaths
                   /\ <<"bundled", theme>> \notin ExistingPaths
    IN  /\ ((noPath \/ noTheme) /\ pc \notin {"construct", "killed"})
           => (err.raised /\ err.phase = "construct")
        /\ (err.raised /\ err.phase = "construct") =>
              /\ ~pelican.constructed
              /\ nruns = 0
              /\ generators = << >>
              /\ trace = << >>
              /\ pc \in {"except", "exited", "reraised"}

C10_Witness ==
    /\ err.raised
    /\ err.phase = "construct"
    /\ args.theme = T_missing
    /\ args.autoreload
    /\ pc = "exited"

\* The generators an event of kind k is recorded for, in the order of the
\* events.
Called(k) ==
    LET ev == SelectSeq(trace, LAMBDA e : e[1] = k) IN
    [i \in 1..Len(ev) |-> ev[i][2]]
\* The first n pipeline members that expose capability cap, in pipeline order.
CapableOf(cap, n) ==
    SelectSeq(SubSeq(generators, 1, n), LAMBDA g : cap \in classes[g])
\* How many pipeline members each loop of run() has reached so far.
ContextReached ==
    CASE pc = "ctx" -> idx - 1
      [] pc = "in_ctx" -> idx
      [] OTHER -> Len(generators)
OutputReached ==
    CASE pc \in {"ctx", "in_ctx", "get_writer"} -> 0
      [] pc = "out" -> idx - 1
      [] pc = "in_out" -> idx
      [] OTHER -> Len(generators)

\* C14: during a run() and after it has returned, the generate_context calls
\* made so far are exactly those of the pipeline members reached so far that
\* have generate_context, once each and in pipeline order, and likewise for
\* generate_output; every call has returned before the next event, the one
\* being executed apart; a member without the capability is passed over and
\* no error is raised.
C14_CapableMembersOnceInOrder ==
    (InRun \/ RunReturned) =>
        /\ Called("ctx_begin") = CapableOf("generate_context", ContextReached)
        /\ Called("out_begin") = CapableOf("generate_output", OutputReached)
        /\ \A i \in Kinds("ctx_begin") :
              IF i = Len(trace) THEN pc = "in_ctx"
              ELSE trace[i + 1] = <<"ctx_end", trace[i][2]>>
        /\ \A i \in Kinds("out_begin") :
              IF i = Len(trace) THEN pc = "in_out"
              ELSE trace[i + 1] = <<"out_end", trace[i][2]>>
        /\ ~err.raised

C14_Witness ==
    /\ RunReturned
    /\ Len(generators) = 4
    /\ classes["ArticlesGenerator"] = {}
    /\ Called("ctx_end") = <<"PagesGenerator", "PdfGenerator">>
    /\ Called("out_end") = <<"StaticGenerator", "PdfGenerator">>

\* C15 as stated: in watch mode a build cycle is not ended part-way by an
\* interrupt; main() never ends with the output directory erased by a run()
\* whose output phase has not run.
C15_NoPartialBuild ==
    (args.autoreload /\ pc = "done" /\ Happened("clean")) =>
        /\ Happened("writer")
        /\ Called("out_end") = CapableOf("generate_output", Len(generators))

\* C16 as stated, for polls made once files_changed has recorded both trees:
\* when a poll has reported a change, the WatchState of both trees is
\* refreshed, so neither tree has a change left to report.
C16_BothTreesRefreshed ==
    (args.autoreload /\ pc = "run" /\ \A t \in Trees : recorded[t]) =>
        \A t \in Trees : ~dirty[t]

\* C17: in every run() the output directory is erased at most once, after
\* every generate_context call of the run has returned and before the writer
\* is constructed and any generate_output begins; when the cleanup decision
\* is over, the context phase is complete and neither the writer nor any
\* generate_output has been reached.
C17_CleanupBetweenPhases ==
    /\ Cardinality(Kinds("clean")) <= 1
    /\ \A c \in Kinds("clean") :
          /\ \A i \in Kinds("ctx_begin") \cup Kinds("ctx_end") : i < c
          /\ \A i \in Kinds("writer") \cup Kinds("out_begin")
                         \cup Kinds("out_end") : c < i
          /\ Called("ctx_end") = CapableOf("generate_context", Len(generators))
    /\ pc = "get_writer" =>
          /\ Called("ctx_end") = CapableOf("generate_context", Len(generators))
          /\ ~Happened("writer")
          /\ ~Happened("out_begin")
    /\ (Happened("out_begin") /\ ~Happened("out_end") /\ Happened("clean"))
          => ~outputDirExists

C17_Witness ==
    /\ Happened("clean")
    /\ Happened("ctx_end")
    /\ Happened("out_end")
    /\ nruns = 2
    /\ RunReturned

\* Deletion is asked for and the output path is a prefix of the content path.
DeletionSkipped ==
    /\ pelican.constructed
    /\ pelican.delete_outputdir
    /\ StartsWith(Realpath(pelican.path), pelican.output_path)

\* C18: when deletion is asked for and skipped because of the overlap, the
\* cleanup step raises nothing and run() goes on: the only errors are those
\* of generators, the writer is constructed next, and once run() has returned
\* generate_output has been called and has returned for every pipeline member
\* that has it.
C18_SkippedDeletionIsSilent ==
    DeletionSkipped =>
        /\ err.raised => err.phase \in {"context", "output"}
        /\ pc = "get_writer" => (~err.raised /\ ~Happened("clean"))
        /\ (pc \in {"out", "in_out"} \/ RunReturned) => Happened("writer")
        /\ RunReturned =>
              Called("out_end") = CapableOf("generate_output", Len(generators))

C18_Witness ==
    /\ DeletionSkipped
    /\ RunReturned
    /\ Happened("writer")
    /\ Cardinality(Kinds("out_end")) = 3
    /\ ~Happened("clean")

\* C19: once run() has been called, its context is a copy of the settings,
\* the settings are those the constructor left, and the entries added to the
\* context are those of the generate_context calls of this run, none of an
\* earlier run.
C19_FreshContextPerRun ==
    nruns > 0 =>
        /\ context.live
        /\ context.settings = settings
        /\ settings = HandleDeprecation(loaded)
        /\ context.added = {trace[i][2] : i \in Kinds("ctx_end")}

C19_Witness ==
    /\ nruns = 2
    /\ pc = "ctx"
    /\ idx = 1
    /\ "generate_context" \in classes[generators[1]]
    /\ context.added = {}
    /\ settings["CLEAN_URLS"]

\* s is a string prefix of t.
IsStringPrefix(s, t) ==
    /\ Len(s) <= Len(t)
    /\ \A i \in 1..Len(s) : s[i] = t[i]
\* The cleanup step of the run is over.
PastCleanup == pc \in {"get_writer", "out", "in_out"} \/ RunReturned

FixedTemplate(k) ==
    CASE k = "ARTICLE_URL" -> <<"{", "s", "l", "u", "g", "}", "/">>
      [] k = "ARTICLE_LANG_URL" ->
            <<"{", "s", "l", "u", "g", "}", "-", "{", "l", "a", "n", "g", "}",
              "/">>
      [] k = "PAGE_URL" ->
            <<"p", "a", "g", "e", "s", "/", "{", "s", "l", "u", "g", "}", "/">>
      [] k = "PAGE_LANG_URL" ->
            <<"p", "a", "g", "e", "s", "/", "{", "s", "l", "u", "g", "}", "-",
              "{", "l", "a", "n", "g", "}", "/">>
UrlKeys == {"ARTICLE_URL", "ARTICLE_LANG_URL", "PAGE_URL", "PAGE_LANG_URL"}
SaveAsKeys ==
    {"ARTICLE_SAVE_AS", "ARTICLE_LANG_SAVE_AS", "PAGE_SAVE_AS",
     "PAGE_LANG_SAVE_AS"}
\* The keys whose value the migration has changed.
Changed == {k \in DOMAIN settings : settings[k] # loaded[k]}

\* C11 as stated: with CLEAN_URLS set, after the migration the four url keys
\* hold exactly the fixed templates and every other key is unchanged.
C11_Original ==
    (deprecation.done /\ loaded["CLEAN_URLS"]) =>
        /\ \A k \in UrlKeys : settings[k] = FixedTemplate(k)
        /\ \A k \in DOMAIN settings \ UrlKeys : settings[k] = loaded[k]

\* C11, amended: with CLEAN_URLS set and no legacy permalink structure, the
\* four url keys hold exactly the fixed templates and every other key is
\* unchanged; with a legacy permalink structure as well, the four url keys
\* hold the fixed templates behind the derived structure, and only the url
\* and save-as keys are changed.
C11_CleanUrlTemplates ==
    (deprecation.done /\ loaded["CLEAN_URLS"]) =>
        IF loaded["ARTICLE_PERMALINK_STRUCTURE"] = Empty
        THEN /\ \A k \in UrlKeys : settings[k] = FixedTemplate(k)
             /\ \A k \in DOMAIN settings \ UrlKeys : settings[k] = loaded[k]
        ELSE /\ \A k \in UrlKeys :
                   /\ StartsWith(settings[k], deprecation.structure)
                   /\ EndsWith(settings[k], FixedTemplate(k))
                   /\ Len(settings[k]) - Len(deprecation.structure)
                         - Len(FixedTemplate(k)) \in {0, 1}
             /\ Changed \subseteq UrlKeys \cup SaveAsKeys

C11_Witness ==
    /\ deprecation.done
    /\ loaded["CLEAN_URLS"]
    /\ loaded["ARTICLE_PERMALINK_STRUCTURE"] = Empty
    /\ Changed = UrlKeys
    /\ pc = "run"

\* What the tokens of a legacy structure become.
ExpectedToken(t) ==
    CASE t[1] = "name" -> <<"{">> \o t[2] \o <<"}">>
      [] t[1] = "date" -> <<"{", "d", "a", "t", "e", ":", "%">> \o t[2] \o <<"}">>
      [] t[1] = "lit" -> t[2]
RECURSIVE ExpectedTokens(_)
ExpectedTokens(toks) ==
    IF toks = << >> THEN << >>
    ELSE ExpectedToken(Head(toks)) \o ExpectedTokens(Tail(toks))
Expected(toks) ==
    LET e == ExpectedTokens(toks) IN
    IF e # << >> /\ e[1] = "/" THEN SubSeq(e, 2, Len(e)) ELSE e

C13_PlainPrefixing ==
    /\ deprecation.done
    /\ loaded["ARTICLE_PERMALINK_STRUCTURE"] # Empty
    /\ deprecation.structure # Empty
    /\ ~loaded["CLEAN_URLS"]
    /\ \A k \in UrlKeys \cup SaveAsKeys : loaded[k][1] # "/"

\* C13 as stated: the derived structure is prefixed onto exactly six settings,
\* the four save-as keys and two url keys, and every other key is unchanged.
C13_Original ==
    C13_PlainPrefixing =>
        /\ Cardinality(Changed) = 6
        /\ SaveAsKeys \subseteq Changed
        /\ Cardinality(Changed \cap UrlKeys) = 2

\* The value os.path.join gives for structure st in front of value v.
Prefixed(st, v) ==
    IF v # << >> /\ v[1] = "/" THEN v
    ELSE IF st = << >> THEN v
    ELSE IF st[Len(st)] = "/" THEN st \o v
    ELSE st \o <<"/">> \o v

\* C13, amended: with a legacy permalink structure, the derived structure is
\* joined in front of exactly eight settings, the four url keys and the four
\* save-as keys (an absolute value stays as it is), and every other key is
\* unchanged.
C13_EightKeysPrefixed ==
    (deprecation.done /\ loaded["ARTICLE_PERMALINK_STRUCTURE"] # Empty) =>
        /\ \A k \in UrlKeys :
              settings[k] =
                  Prefixed(deprecation.structure,
                           IF loaded["CLEAN_URLS"] THEN FixedTemplate(k)
                           ELSE loaded[k])
        /\ \A k \in SaveAsKeys :
              settings[k] = Prefixed(deprecation.structure, loaded[k])
        /\ \A k \in DOMAIN settings \ (UrlKeys \cup SaveAsKeys) :
              settings[k] = loaded[k]
        /\ C13_PlainPrefixing => Changed = UrlKeys \cup SaveAsKeys

C13_Witness ==
    /\ C13_PlainPrefixing
    /\ Cardinality(Changed) = 8
    /\ Len(tokens) = 3

====
